---------------------------- MODULE Spec2Model ----------------------------
(***************************************************************************)
(* A model of asyncmd's line based configuration store                     *)
(* (asyncmd/mdconfig.py: FlagChangeList, TypedFlagChangeList and           *)
(* LineBasedMDConfig) together with the file system it reads and writes.   *)
(*                                                                         *)
(* Text is modelled character by character: a python str is a sequence of  *)
(* one-character strings, a file is the sequence of its characters.        *)
(* Python objects that can be stored in a list are tagged records          *)
(* [t, s, n]: a str carries its text in s, an int its value in n, a float  *)
(* its value in tenths in n (floats are modelled to one decimal digit).    *)
(***************************************************************************)
EXTENDS Integers, Sequences, FiniteSets, TLC

VARIABLES
    fs,              \* the file system: absolute path -> [exists, content]
    _config,         \* LineBasedMDConfig._config, an insertion ordered dict
    _changed,        \* LineBasedMDConfig._changed
    _original_file,  \* LineBasedMDConfig._original_file
    last,            \* the last call made on the store and its outcome
    pre,             \* the store and the file system as they were before that call
    nops,            \* number of calls made on the store since construction
    lst,             \* a FlagChangeList or TypedFlagChangeList on its own
    objects,         \* a store, its persisted state and the store reloaded from it
    _SEMAPHORES,     \* asyncmd._semaphores._SEMAPHORES
    cpu_count        \* what os.cpu_count() returns on this machine

vars == <<fs, _config, _changed, _original_file, last, pre, nops, lst,
          objects, _SEMAPHORES, cpu_count>>

\* Number of calls made on one store after its construction.
MaxOps == 2

-----------------------------------------------------------------------------
(* Text                                                                    *)

NL == "\n"

Digits == <<"0", "1", "2", "3", "4", "5", "6", "7", "8", "9">>

IsDigit(c) == \E d \in 1..10 : Digits[d] = c

DigitVal(c) == (CHOOSE d \in 1..10 : Digits[d] = c) - 1

AllDigits(s) == \A k \in 1..Len(s) : IsDigit(s[k])

RECURSIVE DigitsVal(_)
DigitsVal(s) ==
    IF s = <<>> THEN 0
    ELSE 10 * DigitsVal(SubSeq(s, 1, Len(s) - 1)) + DigitVal(s[Len(s)])

RECURSIVE NatToText(_)
NatToText(n) ==
    IF n < 10 THEN <<Digits[n + 1]>>
    ELSE NatToText(n \div 10) \o <<Digits[(n % 10) + 1]>>

\* position of the first occurrence of character c in s, 0 when there is none
RECURSIVE FindFrom(_, _, _)
FindFrom(s, c, k) ==
    IF k > Len(s) THEN 0
    ELSE IF s[k] = c THEN k
    ELSE FindFrom(s, c, k + 1)

Find(s, c) == FindFrom(s, c, 1)

\* str.split(sep) for a one-character separator: always at least one piece
RECURSIVE Split(_, _)
Split(s, sep) ==
    LET At(k) ==
            IF k = 0 THEN <<s>>
            ELSE <<SubSeq(s, 1, k - 1)>> \o Split(SubSeq(s, k + 1, Len(s)), sep)
    IN  At(Find(s, sep))

\* sep.join(parts)
RECURSIVE Join(_, _)
Join(parts, sep) ==
    IF parts = <<>> THEN <<>>
    ELSE IF Len(parts) = 1 THEN parts[1]
    ELSE parts[1] \o sep \o Join(Tail(parts), sep)

-----------------------------------------------------------------------------
(* Python values                                                           *)

PyStr(s) == [t |-> "str", s |-> s, n |-> 0]
PyInt(n) == [t |-> "int", s |-> <<>>, n |-> n]
\* python's None
None == [t |-> "NoneType", s |-> <<>>, n |-> 0]

PyFloat(tenths) == [t |-> "float", s |-> <<>>, n |-> tenths]

\* An argument handed to the store: a bare object or a python list of objects.
Bare(v) == [kind |-> "scalar", items |-> <<v>>]
PyList(items) == [kind |-> "list", items |-> items]

Ok(v) == [ok |-> TRUE, v |-> v, err |-> ""]
Raise(e) == [ok |-> FALSE, v |-> PyInt(0), err |-> e]

\* str(v)
str(v) ==
    CASE v.t = "str" -> v.s
      [] v.t = "int" -> NatToText(v.n)
      [] v.t = "float" -> NatToText(v.n \div 10) \o <<".">> \o NatToText(v.n % 10)

\* int(v): a float is truncated, a text must be a run of digits
int(v) ==
    CASE v.t = "int" -> Ok(v)
      [] v.t = "float" -> Ok(PyInt(v.n \div 10))
      [] v.t = "str" ->
            IF v.s # <<>> /\ AllDigits(v.s) THEN Ok(PyInt(DigitsVal(v.s)))
            ELSE Raise("ValueError")

\* float(v): a text is digits with an optional point and fraction
float(v) ==
    CASE v.t = "float" -> Ok(v)
      [] v.t = "int" -> Ok(PyFloat(10 * v.n))
      [] v.t = "str" ->
            LET Parts(ip, fp) ==
                    IF /\ AllDigits(ip) /\ AllDigits(fp)
                       /\ Len(ip) + Len(fp) > 0
                       /\ Len(fp) <= 1
                    THEN Ok(PyFloat(10 * DigitsVal(ip) + DigitsVal(fp)))
                    ELSE Raise("ValueError")
                At(p) ==
                    IF p = 0 THEN Parts(v.s, <<>>)
                    ELSE Parts(SubSeq(v.s, 1, p - 1), SubSeq(v.s, p + 1, Len(v.s)))
            IN  At(Find(v.s, "."))

\* dtype(v) for the three element types of the store
Convert(dtype, v) ==
    CASE dtype = "str" -> Ok(PyStr(str(v)))
      [] dtype = "int" -> int(v)
      [] dtype = "float" -> float(v)

-----------------------------------------------------------------------------
(* FlagChangeList and TypedFlagChangeList                                  *)
(* A list object is [kind |-> "list", dtype, data, changed]; dtype "any"   *)
(* marks a plain FlagChangeList.  A singleton option is stored as the bare *)
(* scalar [kind |-> "scalar", ...], which has no changed attribute.        *)

ListObj(dtype, data) ==
    [kind |-> "list", dtype |-> dtype, data |-> data, changed |-> FALSE]

ScalarObj(v) ==
    [kind |-> "scalar", dtype |-> v.t, data |-> <<v>>, changed |-> FALSE]

\* hasattr(val, "__len__"): lists and strings have a length, numbers do not
HasLen(val) == val.kind = "list" \/ val.items[1].t = "str"

\* val[0] of an object that has a length
FirstItem(val) ==
    IF val.kind = "list"
    THEN IF val.items = <<>> THEN Raise("IndexError") ELSE Ok(val.items[1])
    ELSE IF val.items[1].s = <<>> THEN Raise("IndexError")
         ELSE Ok(PyStr(<<val.items[1].s[1]>>))

\* [dtype(v) for v in items], raising at the first element that fails
RECURSIVE ConvertAll(_, _)
ConvertAll(dtype, items) ==
    IF items = <<>> THEN Ok(<<>>)
    ELSE LET Cons(h, r) == IF ~r.ok THEN r ELSE Ok(<<h.v>> \o r.v)
             First(h) == IF ~h.ok THEN h
                         ELSE Cons(h, ConvertAll(dtype, Tail(items)))
         IN  First(Convert(dtype, items[1]))

\* FlagChangeList(data)
FlagChangeList_init(data) ==
    IF data.kind # "list" THEN Raise("TypeError")
    ELSE Ok(ListObj("any", data.items))

\* TypedFlagChangeList(data, dtype)
TypedFlagChangeList_init(data, dtype) ==
    LET Built(typed_data) ==
            IF ~typed_data.ok THEN typed_data
            ELSE Ok(ListObj(dtype, typed_data.v))
    IN  Built(ConvertAll(dtype,
                         IF ~HasLen(data) THEN <<data.items[1]>>
                         ELSE IF data.kind = "scalar" THEN <<data.items[1]>>
                         ELSE data.items))

\* python's list index: negative keys count from the end
NormIndex(key, len) == IF key < 0 THEN key + len ELSE key

InRange(key, len) == NormIndex(key, len) \in 0..(len - 1)

\* list.insert clamps its position into 0..len
InsertPos(key, len) ==
    LET Clamp(k) == IF k < 0 THEN 0 ELSE IF k > len THEN len ELSE k
    IN  Clamp(NormIndex(key, len))

InsertAt(data, pos, v) ==
    SubSeq(data, 1, pos) \o <<v>> \o SubSeq(data, pos + 1, Len(data))

RemoveAt(data, k) ==
    SubSeq(data, 1, k - 1) \o SubSeq(data, k + 1, Len(data))

\* FlagChangeList.__setitem__
FlagChangeList_setitem(self, key, value) ==
    IF ~InRange(key, Len(self.data)) THEN Raise("IndexError")
    ELSE Ok([self EXCEPT !.data[NormIndex(key, Len(self.data)) + 1] = value,
                         !.changed = TRUE])

\* __delitem__ that takes the flag down again
FlagChangeList_delitem_resets(self, key) ==
    IF ~InRange(key, Len(self.data)) THEN Raise("IndexError")
    ELSE Ok([self EXCEPT
                !.data = RemoveAt(self.data, NormIndex(key, Len(self.data)) + 1),
                !.changed = FALSE])

\* FlagChangeList.__delitem__
FlagChangeList_delitem(self, key) ==
    IF ~InRange(key, Len(self.data)) THEN Raise("IndexError")
    ELSE Ok([self EXCEPT
                !.data = RemoveAt(self.data, NormIndex(key, Len(self.data)) + 1),
                !.changed = TRUE])

\* FlagChangeList.insert
FlagChangeList_insert(self, key, value) ==
    Ok([self EXCEPT
          !.data = InsertAt(self.data, InsertPos(key, Len(self.data)), value),
          !.changed = TRUE])

\* TypedFlagChangeList.__setitem__ that forgets to raise the flag
TypedFlagChangeList_setitem_unflagged(self, key, value) ==
    LET Store(typed_value) ==
            IF ~typed_value.ok THEN typed_value
            ELSE IF ~InRange(key, Len(self.data)) THEN Raise("IndexError")
            ELSE Ok([self EXCEPT
                       !.data[NormIndex(key, Len(self.data)) + 1] = typed_value.v])
    IN  Store(Convert(self.dtype, value))

\* TypedFlagChangeList.__setitem__
TypedFlagChangeList_setitem(self, key, value) ==
    LET Store(typed_value) ==
            IF ~typed_value.ok THEN typed_value
            ELSE IF ~InRange(key, Len(self.data)) THEN Raise("IndexError")
            ELSE Ok([self EXCEPT
                       !.data[NormIndex(key, Len(self.data)) + 1] = typed_value.v,
                       !.changed = TRUE])
    IN  Store(Convert(self.dtype, value))

\* insert of a typed list that stores the value as it was given
TypedFlagChangeList_insert_unconverted(self, key, value) ==
    Ok([self EXCEPT
          !.data = InsertAt(self.data, InsertPos(key, Len(self.data)), value),
          !.changed = TRUE])

\* TypedFlagChangeList.insert
TypedFlagChangeList_insert(self, key, value) ==
    LET Store(typed_value) ==
            IF ~typed_value.ok THEN typed_value
            ELSE Ok([self EXCEPT
                       !.data = InsertAt(self.data,
                                         InsertPos(key, Len(self.data)),
                                         typed_value.v),
                       !.changed = TRUE])
    IN  Store(Convert(self.dtype, value))

\* method resolution: a typed list overrides __setitem__ and insert
List_setitem(self, key, value) ==
    IF self.dtype = "any" THEN FlagChangeList_setitem(self, key, value)
    ELSE TypedFlagChangeList_setitem(self, key, value)

List_insert(self, key, value) ==
    IF self.dtype = "any" THEN FlagChangeList_insert(self, key, value)
    ELSE TypedFlagChangeList_insert(self, key, value)

-----------------------------------------------------------------------------
(* The type dispatch of the modelled subclass                              *)

\* the option names asyncmd.gromacs.utils looks up, character by character
nstxout == <<"n", "s", "t", "x", "o", "u", "t">>
nstvout == <<"n", "s", "t", "v", "o", "u", "t">>
nstfout == <<"n", "s", "t", "f", "o", "u", "t">>
nstxout_compressed ==
    <<"n", "s", "t", "x", "o", "u", "t", "-", "c", "o">> \o
    <<"m", "p", "r", "e", "s", "s", "e", "d">>
nstxtcout == <<"n", "s", "t", "x", "t", "c", "o", "u", "t">>
gen_vel == <<"g", "e", "n", "-", "v", "e", "l">>
continuation == <<"c", "o", "n", "t", "i", "n", "u", "a", "t", "i", "o", "n">>

\* the output frequencies are single integers for the MDP class
NstKeys == {nstxout, nstvout, nstfout, nstxout_compressed, nstxtcout}

_FLOAT_PARAMS == {<<"f">>}
_FLOAT_SINGLETON_PARAMS == {<<"g">>}
_INT_PARAMS == {<<"n">>, <<"c">>}
_INT_SINGLETON_PARAMS == {<<"i">>} \cup NstKeys
\* the one key with a custom rule: lambda l: FlagChangeList(l)
_SPECIAL_PARAM_DISPATCH == {<<"c">>}

\* convert_len1_list_or_singleton(val, dtype)
convert_len1_list_or_singleton(val, dtype) ==
    LET Wrap(r) == IF ~r.ok THEN r ELSE Ok(ScalarObj(r.v))
        OfFirst(first) == IF ~first.ok THEN first ELSE Convert(dtype, first.v)
    IN  IF ~HasLen(val) THEN Wrap(Convert(dtype, val.items[1]))
        ELSE Wrap(OfFirst(FirstItem(val)))

\* a dispatch in which a declared family wins over a custom rule
_construct_type_dispatch_families_first(key) ==
    IF key \in _INT_SINGLETON_PARAMS THEN "int_singleton"
    ELSE IF key \in _INT_PARAMS THEN "int"
    ELSE IF key \in _FLOAT_SINGLETON_PARAMS THEN "float_singleton"
    ELSE IF key \in _FLOAT_PARAMS THEN "float"
    ELSE IF key \in _SPECIAL_PARAM_DISPATCH THEN "special"
    ELSE "default"

\* The rule _construct_type_dispatch leaves under key: the updates are
\* applied in the order float, float singleton, int, int singleton, special,
\* a later one replacing an earlier one, over the default factory.
_construct_type_dispatch(key) ==
    IF key \in _SPECIAL_PARAM_DISPATCH THEN "special"
    ELSE IF key \in _INT_SINGLETON_PARAMS THEN "int_singleton"
    ELSE IF key \in _INT_PARAMS THEN "int"
    ELSE IF key \in _FLOAT_SINGLETON_PARAMS THEN "float_singleton"
    ELSE IF key \in _FLOAT_PARAMS THEN "float"
    ELSE "default"

\* rule(value) for the rules _construct_type_dispatch puts into the table
ApplyRule(rule, value) ==
    CASE rule = "special" -> FlagChangeList_init(value)
      [] rule = "int_singleton" -> convert_len1_list_or_singleton(value, "int")
      [] rule = "int" -> TypedFlagChangeList_init(value, "int")
      [] rule = "float_singleton" ->
            convert_len1_list_or_singleton(value, "float")
      [] rule = "float" -> TypedFlagChangeList_init(value, "float")
      [] rule = "default" -> TypedFlagChangeList_init(value, "str")

\* self._type_dispatch[key](value)
_type_dispatch(key, value) == ApplyRule(_construct_type_dispatch(key), value)

-----------------------------------------------------------------------------
(* Paths and files                                                         *)
(* A path is the sequence of its components; an absolute path starts with  *)
(* the root "/".  The working directory is the root.                       *)

Cwd == <<"/">>

\* os.path.abspath
abspath(path) == IF path[1] = "/" THEN path ELSE Cwd \o path

NoFile == [exists |-> FALSE, content |-> <<>>]
File(content) == [exists |-> TRUE, content |-> content]

\* os.path.isfile and os.path.exists (the model holds regular files only)
isfile(fsys, path) == path \in DOMAIN fsys /\ fsys[path].exists
exists(fsys, path) == path \in DOMAIN fsys /\ fsys[path].exists

-----------------------------------------------------------------------------
(* The line grammar of the modelled subclass                               *)

_KEY_VALUE_SEPARATOR == <<" ", "=", " ">>
_INTER_VALUE_CHAR == <<" ">>

\* the text before the first comment character
StripComment(line) ==
    LET At(k) == IF k = 0 THEN line ELSE SubSeq(line, 1, k - 1)
    IN  At(Find(line, ";"))

\* the whitespace separated words of a line
Tokens(line) ==
    SelectSeq(Split(StripComment(line), " "), LAMBDA w : w # <<>>)

\* _parse_line(line): no item for a comment or blank line, {key: []} for a
\* key without value, {key: [v1, v2, ...]} otherwise; any other line is
\* rejected.  The result is the sequence of the items of the returned dict.
_parse_line(line) ==
    LET Of(tokens) ==
            IF tokens = <<>> THEN Ok(<<>>)
            ELSE IF Len(tokens) >= 2 /\ tokens[2] = <<"=">>
            THEN Ok(<<[key |-> tokens[1],
                       val |-> PyList([k \in 1..(Len(tokens) - 2) |->
                                          PyStr(tokens[k + 2])])]>>)
            ELSE Raise("ValueError")
    IN  Of(Tokens(line))

-----------------------------------------------------------------------------
(* Insertion ordered dicts: sequences of [key, val]                        *)

RECURSIVE DictFindFrom(_, _, _)
DictFindFrom(d, key, k) ==
    IF k > Len(d) THEN 0
    ELSE IF d[k].key = key THEN k
    ELSE DictFindFrom(d, key, k + 1)

\* position of key in d, 0 when d has no such key
DictFind(d, key) == DictFindFrom(d, key, 1)

\* d[key] = val: an existing key keeps its position, a new one goes last
DictSet(d, key, val) ==
    LET At(k) == IF k = 0 THEN Append(d, [key |-> key, val |-> val])
                 ELSE [d EXCEPT ![k].val = val]
    IN  At(DictFind(d, key))

\* del d[key], for a key d has
DictDel(d, key) == RemoveAt(d, DictFind(d, key))

DictKeys(d) == {d[k].key : k \in 1..Len(d)}

-----------------------------------------------------------------------------
(* LineBasedMDConfig                                                       *)
(* self is [_config, _changed, _original_file].                            *)

Result(ok, self, err, warnings) ==
    [ok |-> ok, self |-> self, err |-> err, warnings |-> warnings]

\* changed that looks at the store-level flag only
changed_store_flag_only(self) == self._changed

\* LineBasedMDConfig.changed
changed(self) ==
    LET getattr_changed(v) == IF v.kind = "list" THEN v.changed ELSE FALSE
        any(single_vals_changed) ==
            \E k \in DOMAIN single_vals_changed : single_vals_changed[k]
    IN  self._changed \/ any([k \in 1..Len(self._config) |->
                                 getattr_changed(self._config[k].val)])

\* the loop of parse with the first occurrence of a key taking precedence
RECURSIVE ParseLines_first_wins(_, _)
ParseLines_first_wins(lines, acc) ==
    IF lines = <<>> THEN acc
    ELSE LET Update(items) ==
                 IF items = <<>> THEN acc
                 ELSE IF DictFind(acc.parsed, items[1].key) # 0
                 THEN [acc EXCEPT !.warnings = acc.warnings + 1]
                 ELSE [acc EXCEPT
                         !.parsed = DictSet(acc.parsed, items[1].key, items[1].val)]
             Line(line_parsed) ==
                 IF ~line_parsed.ok
                 THEN [acc EXCEPT !.ok = FALSE, !.err = line_parsed.err]
                 ELSE ParseLines_first_wins(Tail(lines), Update(line_parsed.v))
         IN  Line(_parse_line(lines[1]))

\* The loop of parse over the lines: acc is [ok, parsed, warnings]; every
\* key a line yields that parsed already holds is warned about, then the
\* line's items update parsed.
RECURSIVE ParseLines(_, _)
ParseLines(lines, acc) ==
    IF lines = <<>> THEN acc
    ELSE LET Update(items) ==
                 IF items = <<>> THEN acc
                 ELSE [acc EXCEPT
                         !.parsed = DictSet(acc.parsed, items[1].key, items[1].val),
                         !.warnings =
                             IF DictFind(acc.parsed, items[1].key) # 0
                             THEN acc.warnings + 1 ELSE acc.warnings]
             Line(line_parsed) ==
                 IF ~line_parsed.ok
                 THEN [acc EXCEPT !.ok = FALSE, !.err = line_parsed.err]
                 ELSE ParseLines(Tail(lines), Update(line_parsed.v))
         IN  Line(_parse_line(lines[1]))

\* {key: self._type_dispatch[key](value) for key, value in parsed.items()}
RECURSIVE ConvertParsed(_)
ConvertParsed(parsed) ==
    IF parsed = <<>> THEN Ok(<<>>)
    ELSE LET Cons(h, r) ==
                 IF ~r.ok THEN r
                 ELSE Ok(<<[key |-> parsed[1].key, val |-> h.v]>> \o r.v)
             First(h) == IF ~h.ok THEN h
                         ELSE Cons(h, ConvertParsed(Tail(parsed)))
         IN  First(_type_dispatch(parsed[1].key, parsed[1].val))

\* parse that leaves the store-level flag as it finds it
parse_keeps_flag(self, fsys) ==
    IF ~isfile(fsys, self._original_file)
    THEN Result(FALSE, self, "FileNotFoundError", 0)
    ELSE LET Converted(acc, conv) ==
                 IF ~conv.ok THEN Result(FALSE, self, conv.err, acc.warnings)
                 ELSE Result(TRUE, [self EXCEPT !._config = conv.v], "",
                             acc.warnings)
             Read(acc) ==
                 IF ~acc.ok THEN Result(FALSE, self, acc.err, acc.warnings)
                 ELSE Converted(acc, ConvertParsed(acc.parsed))
         IN  Read(ParseLines(Split(fsys[self._original_file].content, NL),
                             [ok |-> TRUE, err |-> "", parsed |-> <<>>,
                              warnings |-> 0]))

\* parse that empties the table first and fills it as it goes
parse_clears_first(self, fsys) ==
    IF ~isfile(fsys, self._original_file)
    THEN Result(FALSE, self, "FileNotFoundError", 0)
    ELSE LET cleared == [self EXCEPT !._config = <<>>, !._changed = FALSE]
             Converted(acc, conv) ==
                 IF ~conv.ok THEN Result(FALSE, cleared, conv.err, acc.warnings)
                 ELSE Result(TRUE, [cleared EXCEPT !._config = conv.v], "",
                             acc.warnings)
             Read(acc) ==
                 IF ~acc.ok THEN Result(FALSE, cleared, acc.err, acc.warnings)
                 ELSE Converted(acc, ConvertParsed(acc.parsed))
         IN  Read(ParseLines(Split(fsys[self._original_file].content, NL),
                             [ok |-> TRUE, err |-> "", parsed |-> <<>>,
                              warnings |-> 0]))

\* LineBasedMDConfig.parse
parse(self, fsys) ==
    IF ~isfile(fsys, self._original_file)
    THEN Result(FALSE, self, "FileNotFoundError", 0)
    ELSE LET Converted(acc, conv) ==
                 IF ~conv.ok THEN Result(FALSE, self, conv.err, acc.warnings)
                 ELSE Result(TRUE,
                             [self EXCEPT !._config = conv.v,
                                          !._changed = FALSE],
                             "", acc.warnings)
             Read(acc) ==
                 IF ~acc.ok THEN Result(FALSE, self, acc.err, acc.warnings)
                 ELSE Converted(acc, ConvertParsed(acc.parsed))
             Content(file_content) ==
                 Read(ParseLines(Split(file_content, NL),
                                 [ok |-> TRUE, err |-> "", parsed |-> <<>>,
                                  warnings |-> 0]))
         IN  Content(fsys[self._original_file].content)

\* LineBasedMDConfig.original_file (the setter)
original_file_setter(self, fsys, value) ==
    LET Set(path) ==
            IF ~isfile(fsys, path) THEN Result(FALSE, self, "ValueError", 0)
            ELSE parse([self EXCEPT !._original_file = path], fsys)
    IN  Set(abspath(value))

\* LineBasedMDConfig.__init__
MDConfig_init(fsys, original_file) ==
    original_file_setter([_config |-> <<>>, _changed |-> FALSE,
                          _original_file |-> <<>>],
                         fsys, original_file)

\* __setitem__ that raises the flag before it coerces the value
MDConfig_setitem_flag_first(self, key, value) ==
    LET Store(typed_value) ==
            IF ~typed_value.ok
            THEN Result(FALSE, [self EXCEPT !._changed = TRUE],
                        typed_value.err, 0)
            ELSE Result(TRUE,
                        [self EXCEPT
                           !._config = DictSet(self._config, key, typed_value.v),
                           !._changed = TRUE],
                        "", 0)
    IN  Store(_type_dispatch(key, value))

\* __setitem__ that raises the flag only when the entry gets another value
MDConfig_setitem_flag_if_differs(self, key, value) ==
    LET Same(typed_value) ==
            /\ DictFind(self._config, key) # 0
            /\ self._config[DictFind(self._config, key)].val = typed_value.v
        Store(typed_value) ==
            IF ~typed_value.ok THEN Result(FALSE, self, typed_value.err, 0)
            ELSE Result(TRUE,
                        [self EXCEPT
                           !._config = DictSet(self._config, key, typed_value.v),
                           !._changed = self._changed \/ ~Same(typed_value)],
                        "", 0)
    IN  Store(_type_dispatch(key, value))

\* LineBasedMDConfig.__setitem__
MDConfig_setitem(self, key, value) ==
    LET Store(typed_value) ==
            IF ~typed_value.ok THEN Result(FALSE, self, typed_value.err, 0)
            ELSE Result(TRUE,
                        [self EXCEPT
                           !._config = DictSet(self._config, key, typed_value.v),
                           !._changed = TRUE],
                        "", 0)
    IN  Store(_type_dispatch(key, value))

\* __delitem__ that removes the entry without raising the store's flag
MDConfig_delitem_unflagged(self, key) ==
    IF DictFind(self._config, key) = 0 THEN Result(FALSE, self, "KeyError", 0)
    ELSE Result(TRUE, [self EXCEPT !._config = DictDel(self._config, key)],
                "", 0)

\* LineBasedMDConfig.__delitem__
MDConfig_delitem(self, key) ==
    IF DictFind(self._config, key) = 0 THEN Result(FALSE, self, "KeyError", 0)
    ELSE Result(TRUE,
                [self EXCEPT !._config = DictDel(self._config, key),
                             !._changed = TRUE],
                "", 0)

\* a serialization that writes an entry without elements as its bare key
Serialize_bare_empty(config) ==
    LET line(key, value) ==
            IF value.kind = "list"
            THEN IF Len(value.data) > 0
                 THEN key \o _KEY_VALUE_SEPARATOR \o
                      Join([j \in 1..Len(value.data) |-> str(value.data[j])],
                           _INTER_VALUE_CHAR)
                 ELSE key
            ELSE key \o _KEY_VALUE_SEPARATOR \o str(value.data[1])
    IN  Join([k \in 1..Len(config) |-> line(config[k].key, config[k].val)],
             <<NL>>)

\* the text write() builds for a changed store
Serialize(config) ==
    LET line(key, value) ==
            key \o _KEY_VALUE_SEPARATOR \o
            (IF value.kind = "list"
             THEN IF Len(value.data) > 0
                  THEN Join([j \in 1..Len(value.data) |-> str(value.data[j])],
                            _INTER_VALUE_CHAR)
                  ELSE <<>>
             ELSE str(value.data[1]))
    IN  Join([k \in 1..Len(config) |-> line(config[k].key, config[k].val)],
             <<NL>>)

\* shutil.copy2(src, dst)
copy2(fsys, src, dst) ==
    IF ~isfile(fsys, src) THEN [ok |-> FALSE, fs |-> fsys, err |-> "FileNotFoundError"]
    ELSE IF src = dst THEN [ok |-> FALSE, fs |-> fsys, err |-> "SameFileError"]
    ELSE [ok |-> TRUE, fs |-> [fsys EXCEPT ![dst] = File(fsys[src].content)],
          err |-> ""]

\* write that never looks whether outfile exists
write_unguarded(self, fsys, outfile, overwrite) ==
    LET To(path) ==
            IF ~changed(self)
            THEN copy2(fsys, self._original_file, path)
            ELSE [ok |-> TRUE,
                  fs |-> [fsys EXCEPT ![path] = File(Serialize(self._config))],
                  err |-> ""]
    IN  To(abspath(outfile))

\* LineBasedMDConfig.write
write(self, fsys, outfile, overwrite) ==
    LET To(path) ==
            IF exists(fsys, path) /\ ~overwrite
            THEN [ok |-> FALSE, fs |-> fsys, err |-> "ValueError"]
            ELSE IF ~changed(self)
            THEN copy2(fsys, self._original_file, path)
            ELSE [ok |-> TRUE,
                  fs |-> [fsys EXCEPT ![path] = File(Serialize(self._config))],
                  err |-> ""]
    IN  To(abspath(outfile))

-----------------------------------------------------------------------------
(* The files, keys and arguments the store is exercised with               *)

KeyA == <<"a">>   \* no declared type
KeyN == <<"n">>   \* _INT_PARAMS
KeyI == <<"i">>   \* _INT_SINGLETON_PARAMS
KeyF == <<"f">>   \* _FLOAT_PARAMS
KeyG == <<"g">>   \* _FLOAT_SINGLETON_PARAMS
KeyC == <<"c">>   \* _SPECIAL_PARAM_DISPATCH, also listed in _INT_PARAMS

Keys == {KeyA, KeyN, KeyI, KeyF, KeyG, KeyC}

Lines(ls) == Join(ls, <<NL>>)

\* a = x y / f = 1 2.5 / i = 12
FileA ==
    Lines(<< <<"a", " ", "=", " ", "x", " ", "y">>,
             <<"f", " ", "=", " ", "1", " ", "2", ".", "5">>,
             <<"i", " ", "=", " ", "1", "2">> >>)

\* a comment, n three times (first with a value no int can hold), a blank
\* line, a trailing comment, a key without value, g and c
FileB ==
    Lines(<< <<";", " ", "c">>,
             <<"n", " ", "=", " ", "x">>,
             <<"n", " ", "=", " ", "1">>,
             <<>>,
             <<"n", " ", " ", "=", " ", "2", " ", "1", " ", ";", "z">>,
             <<"a", " ", "=">>,
             <<"g", " ", "=", " ", "2">>,
             <<"c", " ", "=", " ", "1", " ", "x">> >>)

\* rejected by the grammar at its first line
FileK1 ==
    Lines(<< <<"n", " ", "1">>,
             <<"a", " ", "=", " ", "1">> >>)

\* rejected by the grammar at its third line, after a duplicate key
FileK2 ==
    Lines(<< <<"a", " ", "=", " ", "1">>,
             <<"a", " ", "=", " ", "2">>,
             <<"n">> >>)

\* every line is accepted, the second key's value cannot be coerced
FileK3 ==
    Lines(<< <<"a", " ", "=", " ", "1">>,
             <<"n", " ", "=", " ", "x">>,
             <<"f", " ", "=", " ", "1">> >>)

PathA == <<"/", "a.mdp">>
PathB == <<"/", "b.mdp">>
PathK1 == <<"/", "k1.mdp">>
PathK2 == <<"/", "k2.mdp">>
PathK3 == <<"/", "k3.mdp">>
PathOut == <<"/", "out.mdp">>

AbsPaths == {PathA, PathB, PathK1, PathK2, PathK3, PathOut}

\* the file system the stores start from; out.mdp does not exist
InitialFs ==
    [p \in AbsPaths |->
        CASE p = PathA -> File(FileA)
          [] p = PathB -> File(FileB)
          [] p = PathK1 -> File(FileK1)
          [] p = PathK2 -> File(FileK2)
          [] p = PathK3 -> File(FileK3)
          [] p = PathOut -> NoFile]

\* paths handed to the original_file setter (b.mdp is relative)
BindPaths == (AbsPaths \ {PathB}) \cup {<<"b.mdp">>}

\* paths handed to write (out.mdp is relative)
WritePaths == {<<"out.mdp">>, PathA, PathB}

\* values handed to store[key] = value
SetValues ==
    { Bare(PyInt(12)),
      Bare(PyStr(<<"1", "2">>)),
      Bare(PyStr(<<"x">>)),
      PyList(<<PyStr(<<"1", "2">>)>>),
      PyList(<<PyInt(1), PyInt(2)>>) }

\* values and positions handed to store[key][index] = value, insert and del
ElemValues == {PyInt(7), PyStr(<<"x">>)}
ElemIndices == {0, -1}
InsertIndices == {1}

-----------------------------------------------------------------------------
(* State machine                                                           *)

Self == [_config |-> _config, _changed |-> _changed,
         _original_file |-> _original_file]

Snapshot == [fs |-> fs, self |-> Self]

Call(op, ok, err, key, index, value, path, overwrite, warnings) ==
    [op |-> op, ok |-> ok, err |-> err, key |-> key, index |-> index,
     value |-> value, path |-> path, overwrite |-> overwrite,
     warnings |-> warnings]

NoValue == PyList(<<>>)

Commit(self) ==
    /\ _config' = self._config
    /\ _changed' = self._changed
    /\ _original_file' = self._original_file

\* no list object is under study on its own
NoList == [kind |-> "none"]
ListIdle == lst = NoList

\* no store is being persisted
NoObjects == [live |-> None, state |-> None, loaded |-> None]
PickleIdle == objects = NoObjects

\* the module asyncmd._semaphores is not imported
SemIdle ==
    /\ _SEMAPHORES = <<>>
    /\ cpu_count = None

Step ==
    /\ nops < MaxOps
    /\ nops' = nops + 1
    /\ pre' = Snapshot
    /\ UNCHANGED <<lst, objects, _SEMAPHORES, cpu_count>>

\* a store constructed on a file it can parse
Init ==
    /\ fs = InitialFs
    /\ \E path \in {PathA} :
          \E r \in {MDConfig_init(InitialFs, path)} :
              /\ r.ok
              /\ _config = r.self._config
              /\ _changed = r.self._changed
              /\ _original_file = r.self._original_file
              /\ last = Call("init", TRUE, "", <<>>, 0, NoValue, path, FALSE,
                             r.warnings)
    /\ pre = [fs |-> InitialFs,
              self |-> [_config |-> <<>>, _changed |-> FALSE,
                        _original_file |-> <<>>]]
    /\ nops = 0
    /\ ListIdle
    /\ PickleIdle
    /\ SemIdle

\* store.original_file = value
SetOriginalFile ==
    \E value \in BindPaths :
        \E r \in {original_file_setter(Self, fs, value)} :
            /\ Step
            /\ Commit(r.self)
            /\ last' = Call("original_file", r.ok, r.err, <<>>, 0, NoValue,
                            value, FALSE, r.warnings)
            /\ UNCHANGED fs

\* store.parse()
Parse ==
    \E r \in {parse(Self, fs)} :
        /\ Step
        /\ Commit(r.self)
        /\ last' = Call("parse", r.ok, r.err, <<>>, 0, NoValue,
                        _original_file, FALSE, r.warnings)
        /\ UNCHANGED fs

\* store[key] = value
SetItem ==
    \E key \in Keys, value \in SetValues :
        \E r \in {MDConfig_setitem(Self, key, value)} :
            /\ Step
            /\ Commit(r.self)
            /\ last' = Call("setitem", r.ok, r.err, key, 0, value, <<>>,
                            FALSE, 0)
            /\ UNCHANGED fs

\* del store[key]
DelItem ==
    \E key \in Keys :
        \E r \in {MDConfig_delitem(Self, key)} :
            /\ Step
            /\ Commit(r.self)
            /\ last' = Call("delitem", r.ok, r.err, key, 0, NoValue, <<>>,
                            FALSE, 0)
            /\ UNCHANGED fs

\* store[key].method(...): __getitem__ of the store, then the method of
\* the entry; a singleton entry is a number and has no such method
OnEntry(self, key, Method(_)) ==
    LET Done(k, r) ==
            IF ~r.ok THEN Result(FALSE, self, r.err, 0)
            ELSE Result(TRUE, [self EXCEPT !._config[k].val = r.v], "", 0)
        At(k) ==
            IF k = 0 THEN Result(FALSE, self, "KeyError", 0)
            ELSE IF self._config[k].val.kind # "list"
            THEN Result(FALSE, self, "TypeError", 0)
            ELSE Done(k, Method(self._config[k].val))
    IN  At(DictFind(self._config, key))

\* store[key][index] = value
ElemSet ==
    \E key \in DictKeys(_config), index \in ElemIndices, value \in ElemValues :
        \E r \in {OnEntry(Self, key, LAMBDA l : List_setitem(l, index, value))} :
            /\ Step
            /\ Commit(r.self)
            /\ last' = Call("elem_set", r.ok, r.err, key, index, Bare(value),
                            <<>>, FALSE, 0)
            /\ UNCHANGED fs

\* store[key].insert(index, value)
ElemInsert ==
    \E key \in DictKeys(_config), index \in InsertIndices, value \in ElemValues :
        \E r \in {OnEntry(Self, key, LAMBDA l : List_insert(l, index, value))} :
            /\ Step
            /\ Commit(r.self)
            /\ last' = Call("elem_insert", r.ok, r.err, key, index,
                            Bare(value), <<>>, FALSE, 0)
            /\ UNCHANGED fs

\* del store[key][index]
ElemDel ==
    \E key \in DictKeys(_config), index \in ElemIndices :
        \E r \in {OnEntry(Self, key, LAMBDA l : FlagChangeList_delitem(l, index))} :
            /\ Step
            /\ Commit(r.self)
            /\ last' = Call("elem_del", r.ok, r.err, key, index, NoValue,
                            <<>>, FALSE, 0)
            /\ UNCHANGED fs

\* store.write(outfile, overwrite)
Write ==
    \E outfile \in WritePaths, overwrite \in BOOLEAN :
        \E r \in {write(Self, fs, outfile, overwrite)} :
            /\ Step
            /\ fs' = r.fs
            /\ last' = Call("write", r.ok, r.err, <<>>, 0, NoValue, outfile,
                            overwrite, 0)
            /\ UNCHANGED <<_config, _changed, _original_file>>

Next ==
    \/ SetOriginalFile
    \/ Parse
    \/ SetItem
    \/ DelItem
    \/ ElemSet
    \/ ElemInsert
    \/ ElemDel
    \/ Write

Spec == Init /\ [][Next]_vars

-----------------------------------------------------------------------------
(* A list object on its own                                                *)
(* The same list classes, exercised without a store around them: lst is    *)
(* the object, last the call made on it, pre the object before that call.   *)

\* Number of calls made on one list after its construction.
MaxListOps == 3

\* MutableSequence.append: self.insert(len(self), value)
MutableSequence_append(self, value) ==
    List_insert(self, Len(self.data), value)

\* MutableSequence.extend: one append per value; the values appended before
\* one that raises stay in the list
RECURSIVE MutableSequence_extend(_, _)
MutableSequence_extend(self, values) ==
    IF values = <<>> THEN Ok(self)
    ELSE LET Rest(r) ==
                 IF ~r.ok THEN [ok |-> FALSE, v |-> self, err |-> r.err]
                 ELSE MutableSequence_extend(r.v, Tail(values))
         IN  Rest(MutableSequence_append(self, values[1]))

\* the element types of the lists and the arguments of their constructors
ListDtypes == {"any", "str", "int", "float"}
ListInputs ==
    { Bare(PyInt(3)),
      Bare(PyStr(<<"1", "2">>)),
      PyList(<<>>),
      PyList(<<PyStr(<<"1">>), PyInt(2)>>),
      PyList(<<PyStr(<<"x">>)>>) }
ExtendValues == {<<PyInt(7), PyInt(8)>>, <<PyInt(7), PyStr(<<"x">>)>>}

StoreIdle ==
    /\ fs = <<>>
    /\ _config = <<>>
    /\ _changed = FALSE
    /\ _original_file = <<>>

ListCall(op, ok, err, index, value) ==
    Call(op, ok, err, <<>>, index, value, <<>>, FALSE, 0)

\* FlagChangeList(data) or TypedFlagChangeList(data, dtype) that returned
ListInit ==
    /\ StoreIdle
    /\ \E dtype \in ListDtypes, data \in ListInputs :
          \E r \in {IF dtype = "any" THEN FlagChangeList_init(data)
                    ELSE TypedFlagChangeList_init(data, dtype)} :
              /\ r.ok
              /\ lst = r.v
              /\ last = ListCall("construct", TRUE, "", 0, data)
    /\ pre = [lst |-> NoList]
    /\ nops = 0
    /\ PickleIdle
    /\ SemIdle

ListStep(r) ==
    /\ nops < MaxListOps
    /\ nops' = nops + 1
    /\ pre' = [lst |-> lst]
    /\ lst' = IF r.ok THEN r.v ELSE lst
    /\ UNCHANGED <<fs, _config, _changed, _original_file>>
    /\ UNCHANGED <<objects, _SEMAPHORES, cpu_count>>

\* lst[index] = value
LSetItem ==
    \E index \in ElemIndices, value \in ElemValues :
        \E r \in {List_setitem(lst, index, value)} :
            /\ ListStep(r)
            /\ last' = ListCall("setitem", r.ok, r.err, index, Bare(value))

\* lst.insert(index, value)
LInsert ==
    \E index \in InsertIndices, value \in ElemValues :
        \E r \in {List_insert(lst, index, value)} :
            /\ ListStep(r)
            /\ last' = ListCall("insert", r.ok, r.err, index, Bare(value))

\* del lst[index]
LDelItem ==
    \E index \in ElemIndices :
        \E r \in {FlagChangeList_delitem(lst, index)} :
            /\ ListStep(r)
            /\ last' = ListCall("delitem", r.ok, r.err, index, NoValue)

\* lst.append(value)
LAppend ==
    \E value \in ElemValues :
        \E r \in {MutableSequence_append(lst, value)} :
            /\ ListStep(r)
            /\ last' = ListCall("append", r.ok, r.err, 0, Bare(value))

\* lst.extend(values): what was appended before a failure stays
LExtend ==
    \E values \in ExtendValues :
        \E r \in {MutableSequence_extend(lst, values)} :
            /\ ListStep([r EXCEPT !.ok = TRUE])
            /\ last' = ListCall("extend", r.ok, r.err, 0, PyList(values))

\* lst[index] and len(lst): __getitem__ and __len__ only read _data
LRead ==
    \E op \in {"getitem", "len"}, index \in ElemIndices :
        /\ ListStep(Ok(lst))
        /\ last' = ListCall(op, op = "len" \/ InRange(index, Len(lst.data)),
                            IF op = "len" \/ InRange(index, Len(lst.data))
                            THEN "" ELSE "IndexError",
                            index, NoValue)

ListNext ==
    \/ LSetItem
    \/ LInsert
    \/ LDelItem
    \/ LAppend
    \/ LExtend
    \/ LRead

ListSpec == ListInit /\ [][ListNext]_vars

-----------------------------------------------------------------------------
(* Writing a changed store                                                 *)
(* Stores parsed from either file, changed by deletions and element        *)
(* operations, and written.                                                *)

WriteInit ==
    /\ fs = InitialFs
    /\ \E path \in {PathA, PathB} :
          \E r \in {MDConfig_init(InitialFs, path)} :
              /\ r.ok
              /\ _config = r.self._config
              /\ _changed = r.self._changed
              /\ _original_file = r.self._original_file
              /\ last = Call("init", TRUE, "", <<>>, 0, NoValue, path, FALSE,
                             r.warnings)
    /\ pre = [fs |-> InitialFs,
              self |-> [_config |-> <<>>, _changed |-> FALSE,
                        _original_file |-> <<>>]]
    /\ nops = 0
    /\ ListIdle
    /\ PickleIdle
    /\ SemIdle

WriteNext ==
    \/ DelItem
    \/ ElemSet
    \/ ElemDel
    \/ Write

WriteSpec == WriteInit /\ [][WriteNext]_vars

-----------------------------------------------------------------------------
(* Persisting a store                                                      *)
(* An object is the attribute dictionary of a LineBasedMDConfig:           *)
(* [_config, _changed, _original_file, _type_dispatch].  objects holds the *)
(* live store, the state taken from it, and the store reloaded from that   *)
(* state in another process.                                               *)

\* Number of calls made after the live store was constructed.
MaxPickleOps == 3

\* the table _construct_type_dispatch returns, over the keys in use
TypeDispatchTable == [key \in Keys |-> _construct_type_dispatch(key)]

\* self.__dict__ of a constructed store
Object(self) ==
    [_config |-> self._config, _changed |-> self._changed,
     _original_file |-> self._original_file,
     _type_dispatch |-> TypeDispatchTable]

\* __getstate__: a copy of __dict__ with the table taken out; self keeps its own
__getstate__(self) ==
    [state |-> [self EXCEPT !._type_dispatch = None], self |-> self]

\* __setstate__ that leaves the table as the state has it
__setstate___without_table(state) == state

\* __setstate__ on the fresh object the unpickler made
__setstate__(state) == [state EXCEPT !._type_dispatch = TypeDispatchTable]

\* obj[key] = value, through the table the object holds
Object_setitem(obj, key, value) ==
    LET Store(typed_value) ==
            IF ~typed_value.ok THEN Result(FALSE, obj, typed_value.err, 0)
            ELSE Result(TRUE,
                        [obj EXCEPT
                           !._config = DictSet(obj._config, key, typed_value.v),
                           !._changed = TRUE],
                        "", 0)
    IN  IF obj._type_dispatch = None THEN Result(FALSE, obj, "TypeError", 0)
        ELSE Store(ApplyRule(obj._type_dispatch[key], value))

PickleInit ==
    /\ StoreIdle
    /\ \E path \in {PathA, PathB} :
          \E r \in {MDConfig_init(InitialFs, path)} :
              /\ r.ok
              /\ objects = [live |-> Object(r.self), state |-> None,
                            loaded |-> None]
              /\ last = Call("init", TRUE, "", <<>>, 0, NoValue, path, FALSE,
                             r.warnings)
    /\ pre = [objects |-> NoObjects]
    /\ nops = 0
    /\ ListIdle
    /\ SemIdle

PickleStep ==
    /\ nops < MaxPickleOps
    /\ nops' = nops + 1
    /\ pre' = [objects |-> objects]
    /\ UNCHANGED <<fs, _config, _changed, _original_file>>
    /\ UNCHANGED <<lst, _SEMAPHORES, cpu_count>>

\* live[key] = value
LiveSetItem ==
    \E key \in Keys, value \in SetValues :
        \E r \in {Object_setitem(objects.live, key, value)} :
            /\ PickleStep
            /\ objects' = [objects EXCEPT !.live = r.self]
            /\ last' = Call("live_setitem", r.ok, r.err, key, 0, value, <<>>,
                            FALSE, 0)

\* del live[key][index]
LiveElemDel ==
    \E key \in DictKeys(objects.live._config), index \in ElemIndices :
        \E r \in {OnEntry(objects.live, key,
                          LAMBDA l : FlagChangeList_delitem(l, index))} :
            /\ PickleStep
            /\ objects' = [objects EXCEPT !.live = r.self]
            /\ last' = Call("live_elem_del", r.ok, r.err, key, index, NoValue,
                            <<>>, FALSE, 0)

\* pickle.dumps(live)
GetState ==
    \E r \in {__getstate__(objects.live)} :
        /\ PickleStep
        /\ objects' = [objects EXCEPT !.state = r.state, !.live = r.self]
        /\ last' = Call("getstate", TRUE, "", <<>>, 0, NoValue, <<>>, FALSE, 0)

\* pickle.loads of the persisted state, in another process
SetState ==
    /\ objects.state # None
    /\ PickleStep
    /\ objects' = [objects EXCEPT !.loaded = __setstate__(objects.state)]
    /\ last' = Call("setstate", TRUE, "", <<>>, 0, NoValue, <<>>, FALSE, 0)

\* loaded[key] = value
LoadedSetItem ==
    /\ objects.loaded # None
    /\ \E key \in Keys, value \in SetValues :
          \E r \in {Object_setitem(objects.loaded, key, value)} :
              /\ PickleStep
              /\ objects' = [objects EXCEPT !.loaded = r.self]
              /\ last' = Call("loaded_setitem", r.ok, r.err, key, 0, value,
                              <<>>, FALSE, 0)

PickleNext ==
    \/ LiveSetItem
    \/ LiveElemDel
    \/ GetState
    \/ SetState
    \/ LoadedSetItem

PickleSpec == PickleInit /\ [][PickleNext]_vars

-----------------------------------------------------------------------------
(* asyncmd.gromacs.utils                                                   *)
(* nstout_from_mdp and ensure_mdp_options, called on a store parsed from   *)
(* an mdp file.                                                            *)

\* Number of calls made on one store.
MaxUtilOps == 2

\* str.upper, for the letters the modelled trajectory types are made of
upper(s) ==
    LET UpperChar(c) ==
            CASE c = "t" -> "T" [] c = "r" -> "R" [] c = "x" -> "X"
              [] c = "c" -> "C" [] c = "g" -> "G" [] c = "o" -> "O"
              [] OTHER -> c
    IN  [i \in 1..Len(s) |-> UpperChar(s[i])]

\* float("inf")
Inf == [t |-> "float", s |-> <<"i", "n", "f">>, n |-> 0]

\* a < b for ints and float("inf")
PyLess(a, b) == a # Inf /\ (b = Inf \/ a.n < b.n)

\* min(vals) of a non-empty list: the first of the smallest values
RECURSIVE PyMinFrom(_, _)
PyMinFrom(m, vals) ==
    IF vals = <<>> THEN m
    ELSE PyMinFrom(IF PyLess(vals[1], m) THEN vals[1] ELSE m, Tail(vals))

PyMin(vals) == PyMinFrom(vals[1], Tail(vals))

\* the loop of nstout_from_mdp: mdp[k] of every key that is set, 0 replaced
\* by float("inf"); a list entry is not equal to 0 and is taken as it is
RECURSIVE NstVals(_, _)
NstVals(mdp, keys) ==
    IF keys = <<>> THEN <<>>
    ELSE LET Val(v) ==
                 IF v.kind = "list" THEN v
                 ELSE IF v.data[1].n = 0 THEN Inf ELSE v.data[1]
             Of(k) ==
                 IF k = 0 THEN <<>> ELSE <<Val(mdp._config[k].val)>>
         IN  Of(DictFind(mdp._config, keys[1])) \o NstVals(mdp, Tail(keys))

\* the tail of nstout_from_mdp: min(vals, default=None) and the check; a
\* list entry cannot be compared with "<", and is returned when it is alone
NstMin(vals) ==
    IF vals = <<>> THEN Raise("ValueError")
    ELSE IF \E j \in 1..Len(vals) : "kind" \in DOMAIN vals[j]
    THEN IF Len(vals) = 1 THEN Ok(vals[1]) ELSE Raise("TypeError")
    ELSE IF PyMin(vals) = Inf THEN Raise("ValueError")
    ELSE Ok(PyMin(vals))

TRR == <<"T", "R", "R">>
XTC == <<"X", "T", "C">>

\* nstout_from_mdp that takes an explicit 0 for an output frequency
nstout_from_mdp_zero_counts(mdp, traj_type) ==
    LET Vals(keys) ==
            [j \in 1..Len(keys) |-> mdp._config[DictFind(mdp._config, keys[j])].val.data[1]]
        Present(keys) ==
            SelectSeq(keys, LAMBDA key : DictFind(mdp._config, key) # 0)
        Least(vals) ==
            IF vals = <<>> THEN Raise("ValueError") ELSE Ok(PyMin(vals))
    IN  IF upper(traj_type) = TRR
        THEN Least(Vals(Present(<<nstxout, nstvout, nstfout>>)))
        ELSE IF upper(traj_type) = XTC
        THEN Least(Vals(Present(<<nstxout_compressed, nstxtcout>>)))
        ELSE Raise("ValueError")

\* nstout_from_mdp(mdp, traj_type)
nstout_from_mdp(mdp, traj_type) ==
    IF upper(traj_type) = TRR
    THEN NstMin(NstVals(mdp, <<nstxout, nstvout, nstfout>>))
    ELSE IF upper(traj_type) = XTC
    THEN NstMin(NstVals(mdp, <<nstxout_compressed, nstxtcout>>))
    ELSE Raise("ValueError")

\* one of the two blocks of ensure_mdp_options: look the option up, set it
\* when it is missing or when its first value is another one
EnsureOption(mdp, key, want) ==
    LET Test(test) ==
            IF test.kind # "list" THEN Result(FALSE, mdp, "TypeError", 0)
            ELSE IF test.data = <<>> THEN Result(FALSE, mdp, "IndexError", 0)
            ELSE IF test.data[1] # PyStr(want)
            THEN MDConfig_setitem(mdp, key, Bare(PyStr(want)))
            ELSE Result(TRUE, mdp, "", 0)
        At(k) ==
            IF k = 0 THEN MDConfig_setitem(mdp, key, Bare(PyStr(want)))
            ELSE Test(mdp._config[k].val)
    IN  At(DictFind(mdp._config, key))

\* ensure_mdp_options(mdp, genvel, continuation): the store is changed in
\* place, so what the first block did stays when the second one raises
ensure_mdp_options(mdp, genvel, continuation_value) ==
    LET Second(r) ==
            IF ~r.ok THEN r
            ELSE EnsureOption(r.self, continuation, continuation_value)
    IN  Second(EnsureOption(mdp, gen_vel, genvel))

\* what _parse_line yields for the lines of an mdp file: the option is
\* left out, or given with one of the values
OptionChoices(key, values) ==
    {<<>>} \cup {<<[key |-> key, val |-> PyList(v)]>> : v \in values}

No == <<"n", "o">>
Yes == <<"y", "e", "s">>
SwitchValues == {<<>>, <<PyStr(No)>>, <<PyStr(Yes)>>}

NstValues(texts) == {<<PyStr(t)>> : t \in texts}

MdpParsed ==
    {a \o b : a \in OptionChoices(gen_vel, SwitchValues),
              b \in OptionChoices(continuation, SwitchValues)}
    \cup
    {x \o v \o f \o c \o t :
        x \in OptionChoices(nstxout, NstValues({<<"0">>, <<"1", "0">>})),
        v \in OptionChoices(nstvout, NstValues({<<"0">>, <<"5">>})),
        f \in OptionChoices(nstfout, NstValues({<<"2", "0">>})),
        c \in OptionChoices(nstxout_compressed, NstValues({<<"0">>, <<"2">>})),
        t \in OptionChoices(nstxtcout, NstValues({<<"4">>}))}

PathMdp == <<"/", "md.mdp">>

TrajTypes ==
    {TRR, <<"t", "r", "r">>, XTC, <<"X", "t", "c">>, <<"G", "R", "O">>}

\* the store parse() builds from an mdp file
UtilsInit ==
    /\ fs = <<>>
    /\ \E parsed \in MdpParsed :
          \E r \in {ConvertParsed(parsed)} :
              /\ r.ok
              /\ _config = r.v
    /\ _changed = FALSE
    /\ _original_file = PathMdp
    /\ last = Call("init", TRUE, "", <<>>, 0, NoValue, PathMdp, FALSE, 0)
    /\ pre = [fs |-> <<>>,
              self |-> [_config |-> <<>>, _changed |-> FALSE,
                        _original_file |-> <<>>]]
    /\ nops = 0
    /\ ListIdle
    /\ PickleIdle
    /\ SemIdle

UtilsStep ==
    /\ nops < MaxUtilOps
    /\ nops' = nops + 1
    /\ pre' = Snapshot
    /\ UNCHANGED <<fs, lst, objects, _SEMAPHORES, cpu_count>>

\* nstout_from_mdp(mdp, traj_type): last.key is traj_type, last.value what
\* was returned
NstoutFromMdp ==
    \E traj_type \in TrajTypes :
        \E r \in {nstout_from_mdp(Self, traj_type)} :
            /\ UtilsStep
            /\ last' = Call("nstout_from_mdp", r.ok, r.err, traj_type, 0,
                            Bare(r.v), <<>>, FALSE, 0)
            /\ UNCHANGED <<_config, _changed, _original_file>>

\* ensure_mdp_options(mdp, genvel, continuation): last.value holds the
\* two arguments
EnsureMdpOptions ==
    \E genvel \in {No, Yes}, continuation_value \in {No, Yes} :
        \E r \in {ensure_mdp_options(Self, genvel, continuation_value)} :
            /\ UtilsStep
            /\ Commit(r.self)
            /\ last' = Call("ensure_mdp_options", r.ok, r.err, <<>>, 0,
                            PyList(<<PyStr(genvel), PyStr(continuation_value)>>),
                            <<>>, FALSE, 0)

UtilsNext ==
    \/ NstoutFromMdp
    \/ EnsureMdpOptions

UtilsSpec == UtilsInit /\ [][UtilsNext]_vars

-----------------------------------------------------------------------------
(* asyncmd._semaphores                                                     *)
(* _SEMAPHORES is the module's dict, name -> semaphore or None; a          *)
(* semaphore is [_value, _bound_value].  cpu_count is None or an int.      *)

\* Number of calls made after the module was imported.
MaxSemOps == 3
\* Largest number of logical cpus of the modelled machines.
MaxCpu == 16
\* Largest num and max_num handed to the setters.
MaxNum == 3

\* asyncio.BoundedSemaphore(value)
BoundedSemaphore(value) ==
    IF value < 0 THEN Raise("ValueError")
    ELSE Ok([_value |-> value, _bound_value |-> value])

\* set_max_process(num, max_num) on a machine where os.cpu_count() returns
\* logical_cpu_count; v is _SEMAPHORES afterwards
set_max_process(semaphores, num, max_num, logical_cpu_count) ==
    LET Install(sem) ==
            IF ~sem.ok THEN [ok |-> FALSE, v |-> semaphores, err |-> sem.err]
            ELSE Ok(DictSet(semaphores, "MAX_PROCESS", sem.v))
        Capped(n) ==
            IF max_num # None /\ max_num.n < n THEN max_num.n ELSE n
    IN  Install(BoundedSemaphore(Capped(
            IF num # None THEN num.n
            ELSE IF logical_cpu_count # None THEN logical_cpu_count.n \div 4
            ELSE 2)))

\* set_max_slurm_jobs(num)
set_max_slurm_jobs(semaphores, num) ==
    LET Install(sem) ==
            IF ~sem.ok THEN [ok |-> FALSE, v |-> semaphores, err |-> sem.err]
            ELSE Ok(DictSet(semaphores, "SLURM_MAX_JOB", sem.v))
    IN  Install(BoundedSemaphore(num.n))

\* resource.getrlimit(resource.RLIMIT_NOFILE)[0] of the modelled machines
SoftLimits == {256, 1024}

\* _SEMAPHORES once the module is imported
ModuleImport(logical_cpu_count, soft_limit) ==
    DictSet(DictSet(DictSet(
        set_max_process(<<>>, None, None, logical_cpu_count).v,
        "MAX_FILES_OPEN", BoundedSemaphore(soft_limit - 30).v),
        "SLURM_CLUSTER_MEDIATOR", BoundedSemaphore(1).v),
        "SLURM_MAX_JOB", None)

CpuCounts == {None} \cup {PyInt(n) : n \in 1..MaxCpu}
Nums == {None} \cup {PyInt(n) : n \in 1..MaxNum}

\* _SEMAPHORES[name]
Semaphore(name) == _SEMAPHORES[DictFind(_SEMAPHORES, name)].val

SemInit ==
    /\ StoreIdle
    /\ ListIdle
    /\ PickleIdle
    /\ cpu_count \in CpuCounts
    /\ \E soft_limit \in SoftLimits :
          _SEMAPHORES = ModuleImport(cpu_count, soft_limit)
    /\ last = Call("import", TRUE, "", <<>>, 0, PyList(<<None, None>>), <<>>,
                   FALSE, 0)
    /\ pre = [_SEMAPHORES |-> <<>>]
    /\ nops = 0

SemStep ==
    /\ nops < MaxSemOps
    /\ nops' = nops + 1
    /\ pre' = [_SEMAPHORES |-> _SEMAPHORES]
    /\ UNCHANGED <<fs, _config, _changed, _original_file, lst, objects,
                   cpu_count>>

\* set_max_process(num, max_num): last.value holds the two arguments
SetMaxProcess ==
    \E num \in Nums, max_num \in Nums :
        \E r \in {set_max_process(_SEMAPHORES, num, max_num, cpu_count)} :
            /\ SemStep
            /\ _SEMAPHORES' = r.v
            /\ last' = Call("set_max_process", r.ok, r.err, <<>>, 0,
                            PyList(<<num, max_num>>), <<>>, FALSE, 0)

\* set_max_slurm_jobs(num)
SetMaxSlurmJobs ==
    \E num \in Nums \ {None} :
        \E r \in {set_max_slurm_jobs(_SEMAPHORES, num)} :
            /\ SemStep
            /\ _SEMAPHORES' = r.v
            /\ last' = Call("set_max_slurm_jobs", r.ok, r.err, <<>>, 0,
                            PyList(<<num>>), <<>>, FALSE, 0)

\* a task enters "async with _SEMAPHORES['MAX_PROCESS']": it goes on only
\* when a permit is free
Acquire ==
    /\ Semaphore("MAX_PROCESS")._value > 0
    /\ SemStep
    /\ _SEMAPHORES' =
          DictSet(_SEMAPHORES, "MAX_PROCESS",
                  [Semaphore("MAX_PROCESS") EXCEPT !._value = @ - 1])
    /\ last' = Call("acquire", TRUE, "", <<>>, 0, NoValue, <<>>, FALSE, 0)

\* a task that holds a permit leaves the block
Release ==
    /\ Semaphore("MAX_PROCESS")._value < Semaphore("MAX_PROCESS")._bound_value
    /\ SemStep
    /\ _SEMAPHORES' =
          DictSet(_SEMAPHORES, "MAX_PROCESS",
                  [Semaphore("MAX_PROCESS") EXCEPT !._value = @ + 1])
    /\ last' = Call("release", TRUE, "", <<>>, 0, NoValue, <<>>, FALSE, 0)

SemNext ==
    \/ SetMaxProcess
    \/ SetMaxSlurmJobs
    \/ Acquire
    \/ Release

SemSpec == SemInit /\ [][SemNext]_vars

-----------------------------------------------------------------------------
(* A task waiting for MAX_PROCESS                                          *)
(* After the import nobody holds a permit and no setter is called any      *)
(* more; tasks enter and leave "async with _SEMAPHORES['MAX_PROCESS']".    *)
(* asyncio wakes a waiting task as soon as a permit is free, hence the     *)
(* weak fairness of Acquire.                                               *)

SemWaitNext ==
    \/ Acquire
    \/ Release

SemWaitSpec == SemInit /\ [][SemWaitNext]_vars /\ WF_vars(Acquire)

-----------------------------------------------------------------------------
(* Properties                                                              *)

ElemOps == {"elem_set", "elem_insert", "elem_del"}
ParseOps == {"original_file", "parse"}

\* store[key] of the current store, for a key it holds
Entry(key) == _config[DictFind(_config, key)].val

IsSingletonKey(key) ==
    /\ key \in _INT_SINGLETON_PARAMS \cup _FLOAT_SINGLETON_PARAMS
    /\ key \notin _SPECIAL_PARAM_DISPATCH

\* C1: in every reachable state store.changed is true exactly when the
\* store-level flag is set or some current entry that is a list has its own
\* changed flag set; scalar entries never count.
C1_ChangedIff ==
    changed(Self) <=>
        (_changed \/ \E k \in 1..Len(_config) :
                        /\ _config[k].val.kind = "list"
                        /\ _config[k].val.changed)

\* an element was assigned in a store whose table was never touched, next
\* to an entry that is a plain scalar
C1_Witness ==
    /\ last.op = "elem_set" /\ last.ok
    /\ ~_changed /\ changed(Self)
    /\ \E k \in 1..Len(_config) : _config[k].val.kind = "scalar"

\* C2: a successful element assignment, insertion or deletion made on a
\* list entry makes store.changed true.
C2_DirtyPropagation ==
    (last.op \in ElemOps /\ last.ok) => changed(Self)

\* store[key][index] = value on a freshly parsed store: the entry itself
\* was not reassigned, the store-level flag is still down
C2_Witness ==
    /\ last.op = "elem_set" /\ last.ok
    /\ ~changed(pre.self)
    /\ ~_changed
    /\ Entry(last.key).dtype # "any"

\* C3: after a successful assignment of original_file, and after a parse()
\* that completes, the table is the one parsed from original_file, the
\* store-level flag and every entry's flag are false, and so is
\* store.changed.
C3_ResetOnReparse ==
    (last.op \in ParseOps /\ last.ok) =>
        /\ ~_changed
        /\ \A k \in 1..Len(_config) : ~_config[k].val.changed
        /\ ~changed(Self)
        /\ _config = MDConfig_init(fs, _original_file).self._config

\* a changed store is pointed at another file
C3_Witness ==
    /\ last.op = "original_file" /\ last.ok
    /\ changed(pre.self)
    /\ pre.self._original_file # _original_file
    /\ pre.self._config # _config

\* C4: write(out) of a store with changed == false makes out a copy of
\* original_file, and a new store bound to out has the table of the store
\* that wrote it.
C4_RoundTrip ==
    (last.op = "write" /\ last.ok /\ ~changed(pre.self)) =>
        /\ fs[abspath(last.path)].content = pre.fs[_original_file].content
        /\ MDConfig_init(fs, abspath(last.path)).ok
        /\ MDConfig_init(fs, abspath(last.path)).self._config = _config

\* C5: write(out, overwrite=False) on an existing out fails and leaves the
\* files and the store as they were.
C5_WriteExistingTarget ==
    (/\ last.op = "write" /\ ~last.overwrite
     /\ exists(pre.fs, abspath(last.path))) =>
        /\ ~last.ok
        /\ fs = pre.fs
        /\ Self = pre.self

\* a changed store is written over an existing file other than its own
C5_Witness ==
    /\ last.op = "write" /\ ~last.overwrite
    /\ exists(pre.fs, abspath(last.path))
    /\ abspath(last.path) # _original_file
    /\ changed(pre.self)

\* the lines of the file the store was last told to parse
ParsedLines == Split(fs[_original_file].content, NL)

\* the positions of the lines that yield a key, and the key of such a line
Producing ==
    {k \in 1..Len(ParsedLines) :
        _parse_line(ParsedLines[k]).ok /\ _parse_line(ParsedLines[k]).v # <<>>}
KeyOfLine(k) == _parse_line(ParsedLines[k]).v[1].key
ValueOfLine(k) == _parse_line(ParsedLines[k]).v[1].val
FileKeys == {KeyOfLine(k) : k \in Producing}
LastLineOf(key) ==
    CHOOSE k \in Producing :
        /\ KeyOfLine(k) = key
        /\ \A j \in Producing : KeyOfLine(j) = key => j <= k

\* C6: a parse succeeds exactly when every line is accepted and the value
\* of the last line of every key can be coerced, however often a key is
\* repeated; the table then has one entry per distinct key, holding the
\* coerced value of the last line that yields the key, and one warning was
\* reported for every repeated occurrence.
C6_DuplicateKeys ==
    (last.op \in ParseOps \cup {"init"} /\ isfile(fs, _original_file)
     /\ (last.op = "original_file" => isfile(fs, abspath(last.path)))) =>
        /\ last.ok <=>
              /\ \A k \in 1..Len(ParsedLines) : _parse_line(ParsedLines[k]).ok
              /\ \A key \in FileKeys :
                    _type_dispatch(key, ValueOfLine(LastLineOf(key))).ok
        /\ last.ok =>
              /\ Len(_config) = Cardinality(FileKeys)
              /\ DictKeys(_config) = FileKeys
              /\ \A k \in 1..Len(_config) :
                    _config[k].val =
                        _type_dispatch(_config[k].key,
                                       ValueOfLine(LastLineOf(_config[k].key))).v
              /\ last.warnings = Cardinality(Producing) - Cardinality(FileKeys)

\* a file that names one key three times was parsed
C6_Witness ==
    /\ last.op = "original_file" /\ last.ok
    /\ last.warnings = 2
    /\ Cardinality({k \in Producing : KeyOfLine(k) = KeyN}) = 3

\* an argument that denotes one number: a bare int, the text of a natural
\* number, or a list holding just one of these
DenotesNumber(value) ==
    /\ Len(value.items) = 1
    /\ \/ value.items[1].t = "int"
       \/ /\ value.items[1].t = "str"
          /\ value.items[1].s # <<>>
          /\ AllDigits(value.items[1].s)

NumberOf(value) ==
    IF value.items[1].t = "int" THEN value.items[1].n
    ELSE DigitsVal(value.items[1].s)

\* C7: assigning a number, its text or a one-element sequence of either to
\* a singleton key stores that number as a typed scalar.
C7_SingletonScalar ==
    (last.op = "setitem" /\ IsSingletonKey(last.key)
     /\ DenotesNumber(last.value)) =>
        /\ last.ok
        /\ Entry(last.key) =
              ScalarObj(IF last.key \in _INT_SINGLETON_PARAMS
                        THEN PyInt(NumberOf(last.value))
                        ELSE PyFloat(10 * NumberOf(last.value)))

\* C8: assigning a sequence of more than one element to a singleton key
\* fails and leaves the store as it was.
C8_SingletonRejectsSequence ==
    (last.op = "setitem" /\ IsSingletonKey(last.key)
     /\ last.value.kind = "list" /\ Len(last.value.items) > 1) =>
        /\ ~last.ok
        /\ Self = pre.self

\* C9: a set whose value the rule of the key cannot coerce fails and
\* changes nothing: the table, the flags and store.changed are as before.
C9_FailedSetNoMutation ==
    (last.op = "setitem" /\ ~_type_dispatch(last.key, last.value).ok) =>
        /\ ~last.ok
        /\ Self = pre.self
        /\ changed(Self) = changed(pre.self)
        /\ fs = pre.fs

\* a value that cannot be coerced is assigned to a key that an unchanged
\* store holds
C9_Witness ==
    /\ last.op = "setitem" /\ ~last.ok
    /\ DictFind(pre.self._config, last.key) # 0
    /\ ~changed(pre.self)

\* C10: a parse that aborts leaves the table and the flags as they were.
C10_AbortedParseKeepsTable ==
    (last.op \in ParseOps /\ ~last.ok) =>
        /\ _config = pre.self._config
        /\ _changed = pre.self._changed
        /\ changed(Self) = changed(pre.self)

\* the parse of an existing file aborts at its third line, in a store that
\* was changed before
C10_Witness ==
    /\ last.op = "original_file" /\ ~last.ok
    /\ abspath(last.path) = PathK2
    /\ isfile(fs, PathK2)
    /\ changed(pre.self)
    /\ _config # <<>>

\* the entries of a table under the keys other than key, in table order
Others(config, key) == SelectSeq(config, LAMBDA e : e.key # key)

\* C11: after every successful set(key, value), also one that assigns the
\* value the entry already has, the entry is the coerced value, and after
\* every successful delete(key) the entry is gone; the other entries are
\* kept and store.changed is true.
C11_SetDeleteMarkChanged ==
    /\ (last.op = "setitem" /\ last.ok) =>
          /\ DictFind(_config, last.key) # 0
          /\ Entry(last.key) = _type_dispatch(last.key, last.value).v
          /\ Others(_config, last.key) = Others(pre.self._config, last.key)
          /\ _changed
          /\ changed(Self)
    /\ (last.op = "delitem" /\ last.ok) =>
          /\ DictFind(pre.self._config, last.key) # 0
          /\ DictFind(_config, last.key) = 0
          /\ _config = Others(pre.self._config, last.key)
          /\ _changed
          /\ changed(Self)

\* an unchanged store is assigned the value one of its entries already has
C11_Witness ==
    /\ last.op = "setitem" /\ last.ok
    /\ ~changed(pre.self)
    /\ _config = pre.self._config
    /\ changed(Self)

ListMutators == {"setitem", "insert", "delitem", "append", "extend"}
ListReads == {"getitem", "len"}

\* C12: a list has changed == false right after construction; a successful
\* element assignment, insertion or deletion makes it true; once true it
\* stays true under every later list operation; indexing and length leave
\* the object as it was.
C12_FlagLatches ==
    /\ [](/\ last.op = "construct" => ~lst.changed
          /\ (last.op \in ListMutators /\ last.ok) => lst.changed
          /\ last.op \in ListReads => lst = pre.lst)
    /\ [][lst.changed => lst'.changed]_vars

\* an element is deleted from a list that was already changed and read
C12_Witness ==
    /\ last.op = "delitem" /\ last.ok
    /\ pre.lst.changed
    /\ lst.changed
    /\ nops = MaxListOps

\* C13: every element of a typed list is of the declared element type,
\* after construction and after any assignments, insertions, appends,
\* extends and deletions; a string or a non-sequence handed to the
\* constructor becomes a list of one element.
C13_ElementsTyped ==
    (lst.kind = "list" /\ lst.dtype # "any") =>
        /\ \A k \in 1..Len(lst.data) : lst.data[k].t = lst.dtype
        /\ (last.op = "construct" /\ last.value.kind = "scalar") =>
              Len(lst.data) = 1

\* extend stopped at a value an int list cannot take, after appending one
C13_Witness ==
    /\ lst.kind = "list" /\ lst.dtype = "int"
    /\ last.op = "extend" /\ ~last.ok
    /\ Len(lst.data) = Len(pre.lst.data) + 1

DeclaredKeys ==
    _FLOAT_PARAMS \cup _FLOAT_SINGLETON_PARAMS \cup _INT_PARAMS
        \cup _INT_SINGLETON_PARAMS

\* what an entry under key looks like: the custom rule of the modelled
\* subclass builds a plain list, a multi family a typed list, a singleton
\* family a typed scalar, and any other key a text list
ShapeOf(key) ==
    IF key \in _SPECIAL_PARAM_DISPATCH THEN <<"list", "any">>
    ELSE IF key \in _INT_PARAMS THEN <<"list", "int">>
    ELSE IF key \in _INT_SINGLETON_PARAMS THEN <<"scalar", "int">>
    ELSE IF key \in _FLOAT_PARAMS THEN <<"list", "float">>
    ELSE IF key \in _FLOAT_SINGLETON_PARAMS THEN <<"scalar", "float">>
    ELSE <<"list", "str">>

\* C14: the rule used for a key by set and by parse is its custom rule if it
\* has one, also when the key is listed in a declared family; otherwise the
\* rule of its family; otherwise the default rule, which stores the values
\* as a text list (values ["a", "b"] become the text list ["a", "b"]).
C14_DispatchResolution ==
    /\ \A k \in 1..Len(_config) :
          <<_config[k].val.kind, _config[k].val.dtype>> = ShapeOf(_config[k].key)
    /\ (last.op = "setitem" /\ last.key \in _SPECIAL_PARAM_DISPATCH) =>
          /\ last.ok <=> last.value.kind = "list"
          /\ last.ok => Entry(last.key).data = last.value.items
    /\ (last.op = "setitem"
        /\ last.key \notin DeclaredKeys \cup _SPECIAL_PARAM_DISPATCH) =>
          /\ last.ok
          /\ Len(Entry(last.key).data) = Len(last.value.items)
          /\ \A j \in 1..Len(last.value.items) :
                Entry(last.key).data[j] = PyStr(str(last.value.items[j]))

\* a file was parsed that gives the key with both a custom rule and a
\* family values the family could not take, and a key of no family
C14_Witness ==
    /\ last.op = "original_file" /\ last.ok
    /\ DictFind(_config, KeyC) # 0
    /\ KeyC \in _INT_PARAMS
    /\ \E j \in 1..Len(Entry(KeyC).data) : Entry(KeyC).data[j].t = "str"
    /\ DictFind(_config, KeyA) # 0

\* line is what write() puts out for entry e: the key, the separator, and
\* then nothing for a list without elements, the elements' string forms
\* with the joiner between them for any other list, the string form for a
\* singleton
LineOf(line, e) ==
    LET Body(head, rest) ==
            /\ SubSeq(line, 1, Len(head)) = head
            /\ IF e.val.kind = "list"
               THEN IF e.val.data = <<>> THEN rest = <<>>
                    ELSE Split(rest, _INTER_VALUE_CHAR[1]) =
                            [j \in 1..Len(e.val.data) |-> str(e.val.data[j])]
               ELSE rest = str(e.val.data[1])
    IN  /\ Len(line) >= Len(e.key \o _KEY_VALUE_SEPARATOR)
        /\ Body(e.key \o _KEY_VALUE_SEPARATOR,
                SubSeq(line, Len(e.key \o _KEY_VALUE_SEPARATOR) + 1, Len(line)))

\* C15: write(out) of a changed store makes out exactly one line per
\* current key, in table order, the lines joined by "\n" and nothing else.
C15_Serialization ==
    (last.op = "write" /\ last.ok /\ changed(pre.self)) =>
        /\ (_config = <<>>) => fs[abspath(last.path)].content = <<>>
        /\ (_config # <<>>) =>
              /\ Len(Split(fs[abspath(last.path)].content, NL)) = Len(_config)
              /\ \A k \in 1..Len(_config) :
                    LineOf(Split(fs[abspath(last.path)].content, NL)[k],
                           _config[k])
        /\ \A p \in DOMAIN fs : p # abspath(last.path) => fs[p] = pre.fs[p]

\* a changed table with a list of two elements, a list without elements
\* and a singleton was written
C15_Witness ==
    /\ last.op = "write" /\ last.ok /\ changed(pre.self)
    /\ \E k \in 1..Len(_config) :
          _config[k].val.kind = "list" /\ Len(_config[k].val.data) >= 2
    /\ \E k \in 1..Len(_config) :
          _config[k].val.kind = "list" /\ _config[k].val.data = <<>>
    /\ \E k \in 1..Len(_config) : _config[k].val.kind = "scalar"

\* the store the persisted state was taken from, as it was then
Persisted(table) == [objects.state EXCEPT !._type_dispatch = table]

\* C16: the persisted state holds no dispatch table and taking it leaves
\* the live store with its own; the reloaded store has the table, flags and
\* original_file of the persisted one, resolves every key to the rule the
\* live store resolves it to, and a set on it does what it would have done
\* on the store that was persisted.
C16_Persistence ==
    /\ objects.state # None => objects.state._type_dispatch = None
    /\ last.op = "getstate" =>
          /\ objects.live = pre.objects.live
          /\ objects.live._type_dispatch # None
          /\ objects.state._config = objects.live._config
          /\ objects.state._changed = objects.live._changed
          /\ objects.state._original_file = objects.live._original_file
    /\ last.op = "setstate" =>
          /\ objects.loaded._config = objects.state._config
          /\ objects.loaded._changed = objects.state._changed
          /\ objects.loaded._original_file = objects.state._original_file
          /\ changed(objects.loaded) = changed(objects.state)
          /\ objects.loaded._type_dispatch # None
          /\ \A key \in Keys :
                objects.loaded._type_dispatch[key] =
                    objects.live._type_dispatch[key]
          /\ \A key \in Keys, value \in SetValues :
                Object_setitem(objects.loaded, key, value) =
                    Object_setitem(Persisted(objects.live._type_dispatch),
                                   key, value)

\* a store that is changed only through the flag of one of its entries
\* was persisted and reloaded
C16_Witness ==
    /\ last.op = "setstate"
    /\ changed(objects.loaded)
    /\ ~objects.loaded._changed

\* C17: ensure_mdp_options(mdp, genvel, continuation) returns without
\* raising, whatever the store holds under 'gen-vel' and 'continuation'
\* (nothing, another value, the requested value, no value at all), and
\* afterwards the first value of each of the two options is the requested
\* one.
C17_EnsureMdpOptions ==
    last.op = "ensure_mdp_options" =>
        /\ last.ok
        /\ DictFind(_config, gen_vel) # 0
        /\ Entry(gen_vel).data # <<>>
        /\ Entry(gen_vel).data[1] = last.value.items[1]
        /\ DictFind(_config, continuation) # 0
        /\ Entry(continuation).data # <<>>
        /\ Entry(continuation).data[1] = last.value.items[2]

\* a and b are the same text up to the case of their letters
SameLetters(a, b) ==
    /\ Len(a) = Len(b)
    /\ \A i \in 1..Len(a) :
          \/ a[i] = b[i]
          \/ {a[i], b[i]} \in {{"t", "T"}, {"r", "R"}, {"x", "X"}, {"c", "C"}}

\* the output-frequency keys of a trajectory type
TypeKeys(traj_type) ==
    IF SameLetters(traj_type, <<"T", "R", "R">>)
    THEN {nstxout, nstvout, nstfout}
    ELSE IF SameLetters(traj_type, <<"X", "T", "C">>)
    THEN {nstxout_compressed, nstxtcout}
    ELSE {}

\* the non-zero frequencies the store holds for a trajectory type
Frequencies(traj_type) ==
    {Entry(key).data[1].n :
        key \in {k \in TypeKeys(traj_type) : DictFind(_config, k) # 0}} \ {0}

\* C18: nstout_from_mdp(mdp, traj_type) returns the smallest non-zero
\* output frequency among the keys of the trajectory type that the store
\* holds; it raises ValueError when there is none and when traj_type is
\* neither TRR nor XTC in any case of letters; the store is left alone.
C18_NstoutFromMdp ==
    last.op = "nstout_from_mdp" =>
        /\ Self = pre.self
        /\ (Frequencies(last.key) = {}) =>
              ~last.ok /\ last.err = "ValueError"
        /\ (Frequencies(last.key) # {}) =>
              /\ last.ok
              /\ last.value.items[1].t = "int"
              /\ last.value.items[1].n \in Frequencies(last.key)
              /\ \A n \in Frequencies(last.key) : last.value.items[1].n <= n

\* a lower-case trajectory type, one of its keys at 0 and two others set
C18_Witness ==
    /\ last.op = "nstout_from_mdp" /\ last.ok
    /\ last.key = <<"t", "r", "r">>
    /\ \E key \in TypeKeys(last.key) :
          DictFind(_config, key) # 0 /\ Entry(key).data[1].n = 0
    /\ Cardinality(Frequencies(last.key)) = 2

\* C19: set_max_process(num, max_num) installs a MAX_PROCESS semaphore with
\* os.cpu_count() permits when num is None, with num permits otherwise, and
\* with no more than max_num permits when max_num is given.
C19_MaxProcessPermits ==
    (last.op \in {"import", "set_max_process"} /\ cpu_count # None) =>
        /\ last.ok
        /\ Semaphore("MAX_PROCESS")._bound_value = Semaphore("MAX_PROCESS")._value
        /\ \E base \in {IF last.value.items[1] = None THEN cpu_count.n
                        ELSE last.value.items[1].n} :
              Semaphore("MAX_PROCESS")._value =
                  IF last.value.items[2] # None /\ last.value.items[2].n < base
                  THEN last.value.items[2].n
                  ELSE base

\* C20: original_file always names the file the current table was parsed
\* from: an assignment to original_file that fails (the path is not an
\* existing file, or the parse of the new file aborts) leaves original_file,
\* the table and the changed flags as they were.
C20_FailedRebindKeepsBinding ==
    (last.op = "original_file" /\ ~last.ok) =>
        /\ _original_file = pre.self._original_file
        /\ _config = pre.self._config
        /\ _changed = pre.self._changed
        /\ changed(Self) = changed(pre.self)

\* the same, for the one way of failing that the setter checks itself: the
\* path is not an existing file
C20_MissingFileKeepsBinding ==
    (last.op = "original_file" /\ ~last.ok /\ ~isfile(fs, abspath(last.path))) =>
        /\ _original_file = pre.self._original_file
        /\ _config = pre.self._config
        /\ _changed = pre.self._changed

\* an assignment of a path that is no file, to a store that was changed
C20_MissingFileCase ==
    /\ last.op = "original_file" /\ ~last.ok
    /\ ~isfile(fs, abspath(last.path))
    /\ changed(pre.self)

\* C21: store.changed is monotone between parses: once true it stays true
\* under every set, delete, element mutation, failed operation and write,
\* also when the only entry whose own flag was set is deleted or replaced;
\* only a successful parse() or assignment of original_file makes it false
\* again.  write leaves the table, the flags and original_file as they were.
C21_ChangedMonotone ==
    /\ [][(changed(Self) /\ ~(last'.op \in ParseOps /\ last'.ok)) =>
              changed(Self')]_vars
    /\ [](last.op = "write" => Self = pre.self)

\* the store was changed only through the flag of one entry, and that entry
\* is deleted
C21_Witness ==
    /\ last.op = "delitem" /\ last.ok
    /\ ~pre.self._changed
    /\ changed(pre.self)
    /\ ~changed([pre.self EXCEPT
                   !._config = Others(pre.self._config, last.key)])
    /\ changed(Self)

\* C22: after set_max_process() with default arguments the MAX_PROCESS
\* semaphore has at least one permit whatever os.cpu_count() returns (None
\* or any positive integer), so a task that acquires it while no other task
\* holds it eventually proceeds.
C22_DefaultPermitsAcquire ==
    /\ Semaphore("MAX_PROCESS")._bound_value >= 1
    /\ <>(last.op = "acquire")

\* the same for the machines where a quarter of the cpu count is at least
\* one, or the cpu count is unknown
C22_FromFourCpus ==
    (cpu_count = None \/ cpu_count.n >= 4) =>
        /\ Semaphore("MAX_PROCESS")._bound_value >= 1
        /\ <>(last.op = "acquire")

=============================================================================
